---- MODULE Spec2Model ----
(***************************************************************************)
(* The concurrent drill session of lib.AskQuestions: the Orchestrator (the *)
(* caller's goroutine), two Relays (fanOutChannel) and the Publisher       *)
(* (publishChanToWriter), talking over three unbuffered channels.          *)
(*                                                                         *)
(* A Go string is a sequence here, so len(v) is Len(v): the empty string   *)
(* is << >> and the k-th question of a set is <<"Q", "k">>.  A send on an  *)
(* unbuffered channel and the matching receive are one step.               *)
(*                                                                         *)
(* Spec is a session whose caller hands AskQuestions a set and parameters; *)
(* MainSpec is the program from main on (Parse, ParseTopic,                *)
(* BuildQuestionsSet, then the session); StoreSpec is a question set built *)
(* with AddEntry and Concatenate.                                          *)
(***************************************************************************)
EXTENDS Integers, Sequences, FiniteSets, TLC

\* Sessions are explored up to MaxPairs question/answer pairs in total
\* (count * limit).
MaxPairs == 4
\* Question sets hold at most MaxCount entries.
MaxCount == 2
\* The input stream holds at most MaxLines lines before its end.
MaxLines == 2

VARIABLES
    args,        \* main's os.Args[2:], the words after the file name
    file,        \* the lines of the file main opens
    topic,       \* main's topic, the map ParseTopic returns
    added,       \* history: the entries put into qa one by one, in order
    qa,          \* the QuestionsAnswers handed to AskQuestions
    p,           \* the InterrogationParameters handed to AskQuestions
    pc,          \* where the Orchestrator (AskQuestions' own goroutine) is
    fullLoop,    \* AskQuestions' fullLoop
    i,           \* AskQuestions' i, 0-based as in the code
    j,           \* AskQuestions' j
    line,        \* the line s.Scan() last read (s.Text())
    eof,         \* s.Scan() has returned false
    closed,      \* per channel: close() was called on it
    closeCount,  \* per channel: how many times close() was called (history)
    relay,       \* per fanOutChannel goroutine: its position and the value v it holds
    pubPc,       \* where publishChanToWriter is
    itemsRead,   \* publishChanToWriter's itemsRead
    currentLoop, \* publishChanToWriter's currentLoop
    out,         \* what was written to p.out, one entry per Fprintf
    wg,          \* the WaitGroup's counter
    sentQA,      \* history: the values sent on p.qachan, in order
    sentCmd,     \* history: the values sent on p.command, in order
    consumed     \* history: the values publishChanToWriter received, in order

vars == <<args, file, topic, added, qa, p, pc, fullLoop, i, j, line, eof,
          closed, closeCount, relay,
          pubPc, itemsRead, currentLoop, out, wg, sentQA, sentCmd, consumed>>

hostVars == <<args, file, topic, added>>
orchVars == <<fullLoop, i, j, line, eof>>
pubVars == <<pubPc, itemsRead, currentLoop, out, consumed>>
chanVars == <<closed, closeCount>>

----------------------------------------------------------------------------
\* The data: question sets and parameters.

Empty == << >>

Relays == {"A", "B"}
Channels == {"qachan", "command", "publisher"}

\* go fanOutChannel(&wg, p.qachan, p.publisher) is relay A,
\* go fanOutChannel(&wg, p.command, p.publisher) is relay B.
Inbound(r) == IF r = "A" THEN "qachan" ELSE "command"

NewQA == [questions |-> << >>, answers |-> << >>]

AddEntry(s, q, a) ==
    [questions |-> Append(s.questions, q), answers |-> Append(s.answers, a)]

GetCount(s) == Len(s.questions)

\* The set of n entries Qk / Ak, the texts at the places E empty.
RECURSIVE BuildSet(_, _)
BuildSet(n, E) ==
    IF n = 0 THEN NewQA
    ELSE AddEntry(BuildSet(n - 1, E),
                  IF <<"Q", n>> \in E THEN Empty ELSE <<"Q", ToString(n)>>,
                  IF <<"A", n>> \in E THEN Empty ELSE <<"A", ToString(n)>>)

\* The sets explored: no empty text, the first question empty, or the last
\* answer empty.
EmptyPlaces(n) == { {}, {<<"Q", 1>>}, {<<"A", n>>} }

QASets == UNION { { BuildSet(n, E) : E \in EmptyPlaces(n) } : n \in 1..MaxCount }

\* The lines the input stream can hold: Return alone, or a word and Return.
AckLines == {Empty, <<"x">>}

Parameters ==
    [interactive : BOOLEAN, mode : {"linear", "random"},
     limit : -1..MaxPairs, reversed : BOOLEAN]

IsReversedMode(q) == q.reversed

\* A value in a channel is its text. With it travel, read by no process, the
\* channel the Orchestrator sent it on (src), what it sent it as (role), and
\* the index i and the iteration j it sent it in.
Msg(text, src, role, idx, iter) ==
    [text |-> text, src |-> src, role |-> role, idx |-> idx, iter |-> iter]

NoMsg == Msg(Empty, "none", "none", 0, 0)

----------------------------------------------------------------------------
\* Strings: strconv.Atoi and the functions of package strings that Parse,
\* GetListOfSubsections and ParseTopic call.  A string is the sequence of its
\* characters.

Digits == <<"0", "1", "2", "3", "4", "5", "6", "7", "8", "9">>
IsDigit(c) == \E d \in 1..Len(Digits) : Digits[d] = c
DigitValue(c) == (CHOOSE d \in 1..Len(Digits) : Digits[d] = c) - 1

RECURSIVE Decimal(_)
Decimal(s) ==
    IF Len(s) = 0 THEN 0
    ELSE Len(Digits) * Decimal(SubSeq(s, 1, Len(s) - 1)) + DigitValue(s[Len(s)])

\* strconv.Atoi(s): an optional sign and at least one digit, or an error.
Atoi(s) ==
    LET signed == Len(s) > 0 /\ s[1] \in {"+", "-"}
        body == IF signed THEN Tail(s) ELSE s
        ok == Len(body) > 0 /\ \A k \in 1..Len(body) : IsDigit(body[k])
    IN [err |-> ~ok,
        value |-> IF ~ok THEN 0
                  ELSE IF signed /\ s[1] = "-" THEN 0 - Decimal(body)
                  ELSE Decimal(body)]

\* strings.Split(s, sep) for a separator of one character.
RECURSIVE Split(_, _)
Split(s, sep) ==
    IF \A k \in 1..Len(s) : s[k] # sep THEN <<s>>
    ELSE LET k == CHOOSE x \in 1..Len(s) :
                      s[x] = sep /\ \A y \in 1..(x - 1) : s[y] # sep
         IN <<SubSeq(s, 1, k - 1)>> \o Split(SubSeq(s, k + 1, Len(s)), sep)

\* strings.Join(parts, sep).
RECURSIVE Join(_, _)
Join(parts, sep) ==
    IF Len(parts) = 0 THEN Empty
    ELSE IF Len(parts) = 1 THEN parts[1]
    ELSE parts[1] \o <<sep>> \o Join(Tail(parts), sep)

HasPrefix(s, prefix) ==
    Len(s) >= Len(prefix) /\ SubSeq(s, 1, Len(prefix)) = prefix

TrimPrefix(s, prefix) ==
    IF HasPrefix(s, prefix) THEN SubSeq(s, Len(prefix) + 1, Len(s)) ELSE s

----------------------------------------------------------------------------
\* The command line: Parse.

OptI == <<"-", "i">>
OptT == <<"-", "t">>
OptM == <<"-", "m">>
OptS == <<"-", "s">>
OptL == <<"-", "l">>
OptR == <<"-", "r">>
Linear == <<"l", "i", "n", "e", "a", "r">>

\* The p that Parse starts from; wait is in milliseconds.
DefaultParameters ==
    [interactive |-> FALSE, wait |-> 2000, mode |-> "random",
     subsections |-> Empty, limit |-> 1, reversed |-> FALSE]

IsSummaryMode(q) == q.mode = "summary"

GetListOfSubsections(q) ==
    IF Len(q.subsections) = 0 THEN << >> ELSE Split(q.subsections, ",")

\* The loop of Parse from the k-th word on, with the parameters q so far.
\* The result: the parameters, whether the error is non-nil, and whether
\* args[i+1] was read past the end of args (a run-time panic).
RECURSIVE ParseFrom(_, _, _)
ParseFrom(words, k, q) ==
    IF k > Len(words) THEN [p |-> q, err |-> FALSE, panic |-> FALSE]
    ELSE LET opt == words[k] IN
         IF opt \in {OptT, OptM, OptL} /\ k + 1 > Len(words)
         THEN [p |-> q, err |-> FALSE, panic |-> TRUE]
         ELSE IF opt = OptI
         THEN ParseFrom(words, k + 1, [q EXCEPT !.interactive = TRUE])
         ELSE IF opt = OptT
         THEN IF Atoi(words[k + 1]).err
              THEN [p |-> q, err |-> TRUE, panic |-> FALSE]
              ELSE ParseFrom(words, k + 1,
                             [q EXCEPT !.wait = Atoi(words[k + 1]).value])
         ELSE IF opt = OptM
         THEN ParseFrom(words, k + 1,
                        IF words[k + 1] = Linear
                        THEN [q EXCEPT !.mode = "linear"] ELSE q)
         ELSE IF opt = OptS
         THEN ParseFrom(words, k + 1, [q EXCEPT !.mode = "summary"])
         ELSE IF opt = OptL
         THEN ParseFrom(words, k + 1, [q EXCEPT !.subsections = words[k + 1]])
         ELSE IF opt = OptR
         THEN ParseFrom(words, k + 1, [q EXCEPT !.reversed = TRUE])
         ELSE ParseFrom(words, k + 1, q)

Parse(words) == ParseFrom(words, 1, DefaultParameters)

----------------------------------------------------------------------------
\* Question sets and topics.

\* Variant: the questions are appended and the answers are not.
RECURSIVE Concatenate_QuestionsOnly(_, _)
Concatenate_QuestionsOnly(s, toAdd) ==
    IF Len(toAdd) = 0 THEN s
    ELSE Concatenate_QuestionsOnly(
             IF GetCount(toAdd[1]) > 0
             THEN [questions |-> s.questions \o toAdd[1].questions,
                   answers |-> s.answers]
             ELSE s,
             Tail(toAdd))

\* qa.Concatenate(toAdd...): the entries of each set that has some are
\* appended.
RECURSIVE Concatenate(_, _)
Concatenate(s, toAdd) ==
    IF Len(toAdd) = 0 THEN s
    ELSE Concatenate(IF GetCount(toAdd[1]) > 0
                     THEN [questions |-> s.questions \o toAdd[1].questions,
                           answers |-> s.answers \o toAdd[1].answers]
                     ELSE s,
                     Tail(toAdd))

\* A Topic is its map from subsection id to question set.
NewTopic == [id \in {} |-> NewQA]

GetSubsection(t, id) == IF id \in DOMAIN t THEN t[id] ELSE NewQA

SetSubsection(t, id, s) ==
    [x \in DOMAIN t \cup {id} |-> IF x = id THEN s ELSE t[x]]

\* The orders in which the elements of S can come.
Orders(S) ==
    { s \in [1..Cardinality(S) -> S] :
        \A a, b \in 1..Cardinality(S) : a # b => s[a] # s[b] }

\* GetSubsectionsName ranges over the map: the ids come in an order the
\* language leaves open.  The lists it can return.
GetSubsectionsName(t) == Orders(DOMAIN t)

TopicAnnounce == <<"#", "#", "#", " ">>
QaSep == ";"

\* The loop of ParseTopic over the lines left.
RECURSIVE ParseLines(_, _, _, _)
ParseLines(lines, t, subsectionId, qaSubsection) ==
    IF Len(lines) = 0 THEN t
    ELSE LET input == lines[1]
             split == Split(input, QaSep)
         IN IF Len(input) = 0
            THEN ParseLines(Tail(lines), t, subsectionId, qaSubsection)
            ELSE IF Len(split) = 1
            THEN IF HasPrefix(input, TopicAnnounce)
                 THEN LET id == TrimPrefix(input, TopicAnnounce)
                      IN ParseLines(Tail(lines),
                                    SetSubsection(t, id, GetSubsection(t, id)),
                                    id, GetSubsection(t, id))
                 ELSE ParseLines(Tail(lines), t, subsectionId, qaSubsection)
            ELSE LET s == AddEntry(qaSubsection, split[1],
                                   Join(Tail(split), QaSep))
                 IN ParseLines(Tail(lines),
                               SetSubsection(t, subsectionId, s),
                               subsectionId, s)

\* ParseTopic: the slice of lines starts with 50 empty strings.
ParseTopic(lines) ==
    ParseLines([k \in 1..50 |-> Empty] \o lines, NewTopic, Empty, NewQA)

\* The set BuildQuestionsSet builds from the subsections named, in the order
\* given.
BuildFrom(t, subsections) ==
    Concatenate(NewQA, [k \in 1..Len(subsections) |->
                            GetSubsection(t, subsections[k])])

\* topic.BuildQuestionsSet(ids...): the sets it can return.
BuildQuestionsSet(t, ids) ==
    { BuildFrom(t, subsections) :
        subsections \in IF Len(ids) = 0 THEN GetSubsectionsName(t) ELSE {ids} }

\* The map after BuildQuestionsSet: GetSubsection has entered the ids it did
\* not hold.
TopicAfterBuild(t, ids) ==
    [x \in DOMAIN t \cup {ids[k] : k \in 1..Len(ids)} |-> GetSubsection(t, x)]

----------------------------------------------------------------------------
\* The variables of a session that has not begun.
Fresh ==
    /\ fullLoop = 0 /\ i = 0 /\ j = 0
    /\ line = Empty /\ eof = FALSE
    /\ closed = [c \in Channels |-> FALSE]
    /\ closeCount = [c \in Channels |-> 0]
    /\ relay = [r \in Relays |-> [pc |-> "new", v |-> NoMsg]]
    /\ pubPc = "new"
    /\ itemsRead = 0 /\ currentLoop = 0
    /\ out = << >>
    /\ wg = 0
    /\ sentQA = << >> /\ sentCmd = << >> /\ consumed = << >>

\* AskQuestions called with a set and parameters its caller has built.
Init ==
    /\ args = << >> /\ file = << >> /\ topic = << >> /\ added = << >>
    /\ qa \in QASets
    /\ p \in {q \in Parameters : GetCount(qa) * q.limit <= MaxPairs}
    /\ pc = "idle"
    /\ Fresh

nbOfQuestions == GetCount(qa)

----------------------------------------------------------------------------
\* The Orchestrator: AskQuestions.

\* Variant: wg.Add(2) for three workers.
Start_AddsTwo ==
    /\ pc = "idle"
    /\ pc' = "loop"
    /\ wg' = wg + 2
    /\ relay' = [r \in Relays |-> [pc |-> "recv", v |-> NoMsg]]
    /\ pubPc' = "begin"
    /\ UNCHANGED <<hostVars, qa, p, orchVars, chanVars, itemsRead, currentLoop, out,
                   sentQA, sentCmd, consumed>>

\* wg.Add(3) and the three go statements.
Start ==
    /\ pc = "idle"
    /\ pc' = "loop"
    /\ wg' = wg + 3
    /\ relay' = [r \in Relays |-> [pc |-> "recv", v |-> NoMsg]]
    /\ pubPc' = "begin"
    /\ UNCHANGED <<hostVars, qa, p, orchVars, chanVars, itemsRead, currentLoop, out,
                   sentQA, sentCmd, consumed>>

\* Variant: the random index can be n itself.
PickIndex_Inclusive == IF p.mode = "random" THEN 0..nbOfQuestions ELSE {i}

\* The index of the iteration: rand.Int31n(n) in random mode, i otherwise.
PickIndex == IF p.mode = "random" THEN 0..(nbOfQuestions - 1) ELSE {i}

\* Variant: fullLoop >= p.limit, the Orchestrator stops one pass early.
LoopHead_Ge ==
    /\ pc = "loop"
    /\ LET newPass == j % nbOfQuestions = 0
           fl == IF newPass THEN fullLoop + 1 ELSE fullLoop
       IN /\ fullLoop' = fl
          /\ IF newPass /\ fl >= p.limit
             THEN /\ pc' = "closeQa"
                  /\ i' = i
             ELSE /\ pc' = "sendQ"
                  /\ i' \in PickIndex
    /\ UNCHANGED <<hostVars, qa, p, j, line, eof, chanVars, relay, pubVars, wg,
                   sentQA, sentCmd>>

\* The head of the for loop: the pass count, the limit, the index.  With an
\* empty set j%nbOfQuestions divides by zero: a run-time panic.
LoopHead ==
    /\ pc = "loop"
    /\ IF nbOfQuestions = 0
       THEN pc' = "panic" /\ UNCHANGED <<fullLoop, i>>
       ELSE LET newPass == j % nbOfQuestions = 0
                fl == IF newPass THEN fullLoop + 1 ELSE fullLoop
            IN /\ fullLoop' = fl
               /\ IF newPass /\ fl > p.limit
                  THEN /\ pc' = "closeQa"
                       /\ i' = i
                  ELSE /\ pc' = "sendQ"
                       /\ i' \in PickIndex
    /\ UNCHANGED <<hostVars, qa, p, j, line, eof, chanVars, relay, pubVars, wg,
                   sentQA, sentCmd>>

\* close(ch): a second close of a channel panics.
Close(ch, next) ==
    /\ IF closed[ch]
       THEN pc' = "panic" /\ UNCHANGED closed
       ELSE pc' = next /\ closed' = [closed EXCEPT ![ch] = TRUE]
    /\ closeCount' = [closeCount EXCEPT ![ch] = @ + 1]

\* Variant: the Orchestrator closes the shared publisher channel as well.
CloseQa_AndPublisher ==
    /\ pc = "closeQa"
    /\ pc' = "closeCmd"
    /\ closed' = [closed EXCEPT !["qachan"] = TRUE, !["publisher"] = TRUE]
    /\ closeCount' = [closeCount EXCEPT !["qachan"] = @ + 1, !["publisher"] = @ + 1]
    /\ UNCHANGED <<hostVars, qa, p, orchVars, relay, pubVars, wg, sentQA, sentCmd>>

CloseQa ==
    /\ pc = "closeQa"
    /\ Close("qachan", "closeCmd")
    /\ UNCHANGED <<hostVars, qa, p, orchVars, relay, pubVars, wg, sentQA, sentCmd>>

\* Variant: no break after the closes, the loop body runs on.
CloseCmd_NoBreak ==
    /\ pc = "closeCmd"
    /\ Close("command", "sendQ")
    /\ UNCHANGED <<hostVars, qa, p, orchVars, relay, pubVars, wg, sentQA, sentCmd>>

CloseCmd ==
    /\ pc = "closeCmd"
    /\ Close("command", "wait")
    /\ UNCHANGED <<hostVars, qa, p, orchVars, relay, pubVars, wg, sentQA, sentCmd>>

\* Variant: the question is not swapped in reversed mode.
Question_NotReversed == qa.questions[i + 1]

\* question and answer of the iteration, swapped in reversed mode.
Question ==
    IF IsReversedMode(p) THEN qa.answers[i + 1] ELSE qa.questions[i + 1]

Answer ==
    IF IsReversedMode(p) THEN qa.questions[i + 1] ELSE qa.answers[i + 1]

\* Variant: the relay sends on every value, the empty ones too.
Received_KeepsEmpty(r, m) ==
    [relay EXCEPT ![r] = [pc |-> "send", v |-> m]]

\* What relay r does with a value it receives: it keeps a non-empty one to
\* send it on, and drops an empty one.
Received(r, m) ==
    IF Len(m.text) # 0
    THEN [relay EXCEPT ![r] = [pc |-> "send", v |-> m]]
    ELSE [relay EXCEPT ![r] = [pc |-> "recv", v |-> NoMsg]]

\* Variant: the send completes while the relay still holds a value, which
\* is lost.
Send_Overwrites(r, m, next) ==
    /\ closed[Inbound(r)] \/ relay[r].pc \in {"recv", "send"}
    /\ IF closed[Inbound(r)]
       THEN pc' = "panic" /\ UNCHANGED relay
       ELSE pc' = next /\ relay' = Received(r, m)

\* ch <- m by the Orchestrator: it panics on a closed channel, and completes
\* when the channel's relay r is receiving.
Send(r, m, next) ==
    /\ closed[Inbound(r)] \/ relay[r].pc = "recv"
    /\ IF closed[Inbound(r)]
       THEN pc' = "panic" /\ UNCHANGED relay
       ELSE pc' = next /\ relay' = Received(r, m)

SendQuestion ==
    /\ pc = "sendQ"
    /\ Send("A", Msg(Question, "qachan", "question", i, j), "pace")
    /\ sentQA' = IF closed["qachan"] THEN sentQA
                 ELSE Append(sentQA, Msg(Question, "qachan", "question", i, j))
    /\ UNCHANGED <<hostVars, qa, p, orchVars, chanVars, pubVars, wg, sentCmd>>

\* Variant: at the end of the input the Orchestrator leaves the loop and
\* closes.
Pace_StopsAtEof ==
    /\ pc = "pace"
    /\ IF ~p.interactive
       THEN pc' = "sendA" /\ UNCHANGED <<line, eof>>
       ELSE \E scan \in (IF eof \/ Len(sentCmd) >= MaxLines
                          THEN {FALSE} ELSE BOOLEAN) :
               IF scan
               THEN pc' = "sendCmd" /\ line' \in AckLines /\ eof' = eof
               ELSE pc' = "closeQa" /\ eof' = TRUE /\ line' = line
    /\ UNCHANGED <<hostVars, qa, p, fullLoop, i, j, chanVars, relay, pubVars, wg,
                   sentQA, sentCmd>>

\* Variant: s.Text() is sent whether s.Scan() read a line or not.
Pace_SendsAtEof ==
    /\ pc = "pace"
    /\ IF ~p.interactive
       THEN pc' = "sendA" /\ UNCHANGED <<line, eof>>
       ELSE \E scan \in (IF eof \/ Len(sentCmd) >= MaxLines
                          THEN {FALSE} ELSE BOOLEAN) :
               IF scan
               THEN pc' = "sendCmd" /\ line' \in AckLines /\ eof' = eof
               ELSE pc' = "sendCmd" /\ eof' = TRUE /\ line' = Empty
    /\ UNCHANGED <<hostVars, qa, p, fullLoop, i, j, chanVars, relay, pubVars, wg,
                   sentQA, sentCmd>>

\* time.Sleep(p.wait), or s.Scan(): a line, or the end of the input.
Pace ==
    /\ pc = "pace"
    /\ IF ~p.interactive
       THEN pc' = "sendA" /\ UNCHANGED <<line, eof>>
       ELSE \E scan \in (IF eof \/ Len(sentCmd) >= MaxLines
                          THEN {FALSE} ELSE BOOLEAN) :
               IF scan
               THEN pc' = "sendCmd" /\ line' \in AckLines /\ eof' = eof
               ELSE pc' = "sendA" /\ eof' = TRUE /\ line' = line
    /\ UNCHANGED <<hostVars, qa, p, fullLoop, i, j, chanVars, relay, pubVars, wg,
                   sentQA, sentCmd>>

SendCommand ==
    /\ pc = "sendCmd"
    /\ Send("B", Msg(line, "command", "ack", i, j), "sendA")
    /\ sentCmd' = IF closed["command"] THEN sentCmd
                  ELSE Append(sentCmd, Msg(line, "command", "ack", i, j))
    /\ UNCHANGED <<hostVars, qa, p, orchVars, chanVars, pubVars, wg, sentQA>>

\* Variant: i does not advance in linear mode.
SendAnswer_NoAdvance ==
    /\ pc = "sendA"
    /\ Send("A", Msg(Answer, "qachan", "answer", i, j), "loop")
    /\ sentQA' = IF closed["qachan"] THEN sentQA
                 ELSE Append(sentQA, Msg(Answer, "qachan", "answer", i, j))
    /\ i' = i
    /\ j' = IF pc' = "loop" THEN j + 1 ELSE j
    /\ UNCHANGED <<hostVars, qa, p, fullLoop, line, eof, chanVars, pubVars, wg, sentCmd>>

\* The answer, then the end of the loop body: i advances in linear mode, j++.
SendAnswer ==
    /\ pc = "sendA"
    /\ Send("A", Msg(Answer, "qachan", "answer", i, j), "loop")
    /\ sentQA' = IF closed["qachan"] THEN sentQA
                 ELSE Append(sentQA, Msg(Answer, "qachan", "answer", i, j))
    /\ IF pc' = "loop"
       THEN /\ i' = IF p.mode = "linear" THEN (i + 1) % nbOfQuestions ELSE i
            /\ j' = j + 1
       ELSE UNCHANGED <<i, j>>
    /\ UNCHANGED <<hostVars, qa, p, fullLoop, line, eof, chanVars, pubVars, wg, sentCmd>>

\* wg.Wait() returns when the counter is zero, and AskQuestions returns.
Wait ==
    /\ pc = "wait"
    /\ wg = 0
    /\ pc' = "done"
    /\ UNCHANGED <<hostVars, qa, p, orchVars, chanVars, relay, pubVars, wg,
                   sentQA, sentCmd, consumed>>

----------------------------------------------------------------------------
\* The Relays: fanOutChannel.

\* Variant: a relay that returns closes the channel it writes to.
RelayReturn_ClosesOutbound(r) ==
    /\ pc # "panic"
    /\ relay[r].pc = "recv"
    /\ closed[Inbound(r)]
    /\ relay' = [relay EXCEPT ![r] = [pc |-> "done", v |-> NoMsg]]
    /\ wg' = wg - 1
    /\ IF closed["publisher"]
       THEN pc' = "panic" /\ UNCHANGED chanVars
       ELSE /\ pc' = pc
            /\ closed' = [closed EXCEPT !["publisher"] = TRUE]
            /\ closeCount' = [closeCount EXCEPT !["publisher"] = @ + 1]
    /\ UNCHANGED <<hostVars, qa, p, orchVars, pubVars, sentQA, sentCmd>>

\* Variant: the relay that returns last closes the channel it writes to.
RelayReturn_ClosesWhenLast(r) ==
    /\ pc # "panic"
    /\ relay[r].pc = "recv"
    /\ closed[Inbound(r)]
    /\ relay' = [relay EXCEPT ![r] = [pc |-> "done", v |-> NoMsg]]
    /\ wg' = wg - 1
    /\ pc' = pc
    /\ IF \A o \in Relays \ {r} : relay[o].pc = "done"
       THEN /\ closed' = [closed EXCEPT !["publisher"] = TRUE]
            /\ closeCount' = [closeCount EXCEPT !["publisher"] = @ + 1]
       ELSE UNCHANGED chanVars
    /\ UNCHANGED <<hostVars, qa, p, orchVars, pubVars, sentQA, sentCmd>>

\* A relay's steps on a closed channel.  Receiving (v, ok := <-readFrom) with
\* readFrom closed: return, and the deferred wg.Done().  Sending (writeTo <- v)
\* with writeTo closed: the send panics and the program ends.
RelayReturn(r) ==
    /\ pc # "panic"
    /\ relay[r].pc \in {"recv", "send"}
    /\ IF relay[r].pc = "recv"
       THEN /\ closed[Inbound(r)]
            /\ relay' = [relay EXCEPT ![r] = [pc |-> "done", v |-> NoMsg]]
            /\ wg' = wg - 1
            /\ pc' = pc
       ELSE /\ closed["publisher"]
            /\ pc' = "panic"
            /\ UNCHANGED <<relay, wg>>
    /\ UNCHANGED <<hostVars, qa, p, orchVars, chanVars, pubVars, sentQA, sentCmd>>

----------------------------------------------------------------------------
\* The Publisher: publishChanToWriter.

PubBegin ==
    /\ pc # "panic"
    /\ pubPc = "begin"
    /\ out' = Append(out, <<"count", nbOfQuestions>>)
    /\ pubPc' = "check"
    /\ UNCHANGED <<hostVars, qa, p, pc, orchVars, chanVars, relay, itemsRead,
                   currentLoop, consumed, wg, sentQA, sentCmd>>

\* Variant: the Publisher returns without wg.Done().
PubCheck_NoDone ==
    /\ pc # "panic"
    /\ pubPc = "check"
    /\ IF itemsRead % (2 * nbOfQuestions) = 0
       THEN /\ currentLoop' = currentLoop + 1
            /\ IF currentLoop + 1 > p.limit
               THEN /\ out' = Append(out, <<"limit", p.limit>>)
                    /\ pubPc' = "done"
               ELSE /\ out' = Append(out, <<"loop", currentLoop + 1, p.limit>>)
                    /\ pubPc' = "recv"
       ELSE /\ pubPc' = "recv"
            /\ UNCHANGED <<currentLoop, out>>
    /\ UNCHANGED <<hostVars, qa, p, pc, orchVars, chanVars, relay, itemsRead, consumed,
                   wg, sentQA, sentCmd>>

\* Variant: currentLoop >= maxLoops, the Publisher stops one loop early.
PubCheck_Ge ==
    /\ pc # "panic"
    /\ pubPc = "check"
    /\ IF itemsRead % (2 * nbOfQuestions) = 0
       THEN /\ currentLoop' = currentLoop + 1
            /\ IF currentLoop + 1 >= p.limit
               THEN /\ out' = Append(out, <<"limit", p.limit>>)
                    /\ pubPc' = "done"
                    /\ wg' = wg - 1
               ELSE /\ out' = Append(out, <<"loop", currentLoop + 1, p.limit>>)
                    /\ pubPc' = "recv"
                    /\ wg' = wg
       ELSE /\ pubPc' = "recv"
            /\ UNCHANGED <<currentLoop, out, wg>>
    /\ UNCHANGED <<hostVars, qa, p, pc, orchVars, chanVars, relay, itemsRead, consumed,
                   sentQA, sentCmd>>

\* Variant: no limit check, the Publisher returns only when its channel closes.
PubCheck_NoLimit ==
    /\ pc # "panic"
    /\ pubPc = "check"
    /\ IF itemsRead % (2 * nbOfQuestions) = 0
       THEN /\ currentLoop' = currentLoop + 1
            /\ out' = Append(out, <<"loop", currentLoop + 1, p.limit>>)
       ELSE UNCHANGED <<currentLoop, out>>
    /\ pubPc' = "recv"
    /\ UNCHANGED <<hostVars, qa, p, pc, orchVars, chanVars, relay, itemsRead, consumed,
                   wg, sentQA, sentCmd>>

\* Variant: the loop test is made at every pair, itemsRead%2 == 0.
PubCheck_BannerEveryPair ==
    /\ pc # "panic"
    /\ pubPc = "check"
    /\ IF itemsRead % 2 = 0
       THEN /\ currentLoop' = currentLoop + 1
            /\ IF currentLoop + 1 > p.limit
               THEN /\ out' = Append(out, <<"limit", p.limit>>)
                    /\ pubPc' = "done"
                    /\ wg' = wg - 1
               ELSE /\ out' = Append(out, <<"loop", currentLoop + 1, p.limit>>)
                    /\ pubPc' = "recv"
                    /\ wg' = wg
       ELSE /\ pubPc' = "recv"
            /\ UNCHANGED <<currentLoop, out, wg>>
    /\ UNCHANGED <<hostVars, qa, p, pc, orchVars, chanVars, relay, itemsRead,
                   consumed, sentQA, sentCmd>>

\* The head of the for loop: the banner of a new loop, or the limit and
\* return.  With qCount = 0 itemsRead%(2*qCount) divides by zero: a run-time
\* panic, which ends the program.
PubCheck ==
    /\ pc # "panic"
    /\ pubPc = "check"
    /\ IF nbOfQuestions = 0
       THEN pc' = "panic" /\ UNCHANGED <<pubPc, currentLoop, out, wg>>
       ELSE /\ pc' = pc
            /\ IF itemsRead % (2 * nbOfQuestions) = 0
               THEN /\ currentLoop' = currentLoop + 1
                    /\ IF currentLoop + 1 > p.limit
                       THEN /\ out' = Append(out, <<"limit", p.limit>>)
                            /\ pubPc' = "done"
                            /\ wg' = wg - 1
                       ELSE /\ out' = Append(out, <<"loop", currentLoop + 1,
                                                    p.limit>>)
                            /\ pubPc' = "recv"
                            /\ wg' = wg
               ELSE /\ pubPc' = "recv"
                    /\ UNCHANGED <<currentLoop, out, wg>>
    /\ UNCHANGED <<hostVars, qa, p, orchVars, chanVars, relay, itemsRead,
                   consumed, sentQA, sentCmd>>

\* fmt.Sprintf(format) with no operand, which is what fmt.Fprintf(out, format)
\* writes: %% is a percent sign, a % that ends the string has no verb, any
\* other % and the character after it is a verb with its operand missing.
RECURSIVE Sprintf(_)
Sprintf(format) ==
    IF Len(format) = 0 THEN Empty
    ELSE IF format[1] # "%"
    THEN <<format[1]>> \o Sprintf(Tail(format))
    ELSE IF Len(format) = 1
    THEN <<"%", "!", "(", "N", "O", "V", "E", "R", "B", ")">>
    ELSE IF format[2] = "%"
    THEN <<"%">> \o Sprintf(SubSeq(format, 3, Len(format)))
    ELSE <<"%", "!", format[2], "(", "M", "I", "S", "S", "I", "N", "G", ")">>
             \o Sprintf(SubSeq(format, 3, Len(format)))

\* "     --> "
AnswerPrefix == <<" ", " ", " ", " ", " ", "-", "-", ">", " ">>

\* What the select writes for the item v, the n-th read: fmt.Fprintf(out, v),
\* or fmt.Fprintf(out, "     --> "+v+"\n") and the line of dashes.
Format(n, v) ==
    IF n % 2 = 1 THEN << <<"question", Sprintf(v.text)>> >>
    ELSE << <<"answer", Sprintf(AnswerPrefix \o v.text \o <<"\n">>)>>,
            <<"separator">> >>

\* Variant: the relay keeps the value it has sent and sends it again.
PubReceive_RelayResends ==
    /\ pc # "panic"
    /\ pubPc = "recv"
    /\ \E r \in Relays :
            /\ relay[r].pc = "send"
            /\ itemsRead' = itemsRead + 1
            /\ out' = out \o Format(itemsRead + 1, relay[r].v)
            /\ consumed' = Append(consumed, relay[r].v)
            /\ pubPc' = "check"
    /\ UNCHANGED <<hostVars, qa, p, pc, orchVars, chanVars, relay, wg, currentLoop,
                   sentQA, sentCmd>>

\* Variant: the receive takes the value of the qachan relay whenever that
\* relay is sending, and the value of the command relay only otherwise.
PubReceive_QaFirst ==
    /\ pc # "panic"
    /\ pubPc = "recv"
    /\ \E r \in Relays :
            /\ relay[r].pc = "send"
            /\ r = "B" => relay["A"].pc # "send"
            /\ relay' = [relay EXCEPT ![r] = [pc |-> "recv", v |-> NoMsg]]
            /\ itemsRead' = itemsRead + 1
            /\ out' = out \o Format(itemsRead + 1, relay[r].v)
            /\ consumed' = Append(consumed, relay[r].v)
            /\ pubPc' = "check"
    /\ UNCHANGED <<hostVars, qa, p, pc, orchVars, chanVars, wg, currentLoop,
                   sentQA, sentCmd>>

\* Variant: a value that came from command is read but not counted in
\* itemsRead.
PubReceive_AcksNotCounted ==
    /\ pc # "panic"
    /\ pubPc = "recv"
    /\ \E r \in Relays :
            /\ relay[r].pc = "send"
            /\ relay' = [relay EXCEPT ![r] = [pc |-> "recv", v |-> NoMsg]]
            /\ itemsRead' = IF r = "A" THEN itemsRead + 1 ELSE itemsRead
            /\ out' = IF r = "A" THEN out \o Format(itemsRead + 1, relay[r].v)
                      ELSE out
            /\ consumed' = Append(consumed, relay[r].v)
            /\ pubPc' = IF r = "A" THEN "check" ELSE "recv"
    /\ UNCHANGED <<hostVars, qa, p, pc, orchVars, chanVars, wg, currentLoop,
                   sentQA, sentCmd>>

\* v, ok := <-readFrom: the publisher channel closed (return), or the value
\* of a relay that is sending (writeTo <- v).
PubReceive ==
    /\ pc # "panic"
    /\ pubPc = "recv"
    /\ IF closed["publisher"]
       THEN /\ pubPc' = "done"
            /\ wg' = wg - 1
            /\ UNCHANGED <<relay, itemsRead, out, consumed>>
       ELSE \E r \in Relays :
            /\ relay[r].pc = "send"
            /\ relay' = [relay EXCEPT ![r] = [pc |-> "recv", v |-> NoMsg]]
            /\ itemsRead' = itemsRead + 1
            /\ out' = out \o Format(itemsRead + 1, relay[r].v)
            /\ consumed' = Append(consumed, relay[r].v)
            /\ pubPc' = "check"
            /\ wg' = wg
    /\ UNCHANGED <<hostVars, qa, p, pc, orchVars, chanVars, currentLoop, sentQA, sentCmd>>

----------------------------------------------------------------------------
Next ==
    \/ Start
    \/ LoopHead
    \/ SendQuestion
    \/ Pace
    \/ SendCommand
    \/ SendAnswer
    \/ CloseQa
    \/ CloseCmd
    \/ Wait
    \/ \E r \in Relays : RelayReturn(r)
    \/ PubBegin
    \/ PubCheck
    \/ PubReceive

Spec == Init /\ [][Next]_vars

\* Go runs a goroutine that can run: a session with a step to take takes one.
FairSpec == Spec /\ WF_vars(Next)

----------------------------------------------------------------------------
\* The program: main, from its command line and its file to AskQuestions.

\* The subsections a file can hold.
SubsectionIds == { <<"1">>, <<"2">> }

AnnounceLine(id) == TopicAnnounce \o id

\* The k-th entry of the subsection id: Q<id><k>;A<id><k>.
EntryLine(id, k) ==
    <<"Q">> \o id \o <<Digits[k + 1]>> \o <<QaSep>>
        \o <<"A">> \o id \o <<Digits[k + 1]>>

\* A subsection of n entries: its announce line, its entries, an empty line.
SectionLines(id, n) ==
    <<AnnounceLine(id)>> \o [k \in 1..n |-> EntryLine(id, k)] \o <<Empty>>

RECURSIVE FileOf(_, _)
FileOf(order, counts) ==
    IF Len(order) = 0 THEN << >>
    ELSE SectionLines(order[1], counts[order[1]]) \o FileOf(Tail(order), counts)

\* The files explored: subsections in any order with up to MaxCount entries
\* each, a file of one entry under no announce line whose answer holds the
\* separator, and a file of one entry, 5% and %d.
Files ==
    { FileOf(order, counts) :
        order \in UNION { Orders(S) : S \in SUBSET SubsectionIds },
        counts \in [SubsectionIds -> 0..MaxCount] }
    \cup { << <<"Q", QaSep, "A", QaSep, "B">> >>,
           << <<"5", "%", QaSep, "%", "d">> >> }

\* The command lines explored.
ArgLists ==
    { << >>,
      <<OptI>>, <<OptR>>, <<OptS>>, <<OptM, Linear>>, <<OptI, OptM, Linear>>,
      <<OptT, <<"1", "5">>>>, <<OptT, <<"1", "5", "a", "a", "a">>>>,
      <<OptI, OptT, <<"1", "5", "a", "a", "a">>>>, <<OptT, OptI>>, <<OptT>>,
      <<OptL, <<"1">>>>, <<OptL, <<"2", ",", "1">>>>,
      <<OptL, <<"1", ",", "1">>>>, <<OptL, <<"3">>>> }

\* main before lib.Parse: the words and the file are given.
MainInit ==
    /\ args \in ArgLists
    /\ file \in Files
    /\ LET r == Parse(args)
       IN r.panic \/ r.err \/
          \A s \in BuildQuestionsSet(ParseTopic(file),
                                     GetListOfSubsections(r.p)) :
              GetCount(s) <= MaxCount
    /\ topic = NewTopic /\ added = << >>
    /\ qa = NewQA
    /\ p = DefaultParameters
    /\ pc = "main"
    /\ Fresh

\* Variant: main goes on whatever err is.
MainParse_IgnoresError ==
    /\ pc = "main"
    /\ LET r == Parse(args)
       IN /\ p' = r.p
          /\ pc' = IF r.panic THEN "panic" ELSE "parsed"
    /\ UNCHANGED <<hostVars, qa, orchVars, chanVars, relay, pubVars, wg,
                   sentQA, sentCmd>>

\* p, err := lib.Parse(os.Args[2:]...) and, with an error, os.Exit(1).
MainParse ==
    /\ pc = "main"
    /\ LET r == Parse(args)
       IN /\ p' = r.p
          /\ pc' = IF r.panic THEN "panic"
                   ELSE IF r.err THEN "exit" ELSE "parsed"
    /\ UNCHANGED <<hostVars, qa, orchVars, chanVars, relay, pubVars, wg,
                   sentQA, sentCmd>>

\* topic := lib.ParseTopic(file, tpp) and, in summary mode, the list of the
\* subsections and the return.
MainParseTopic ==
    /\ pc = "parsed"
    /\ topic' = ParseTopic(file)
    /\ IF IsSummaryMode(p)
       THEN /\ pc' = "returned"
            /\ \E list \in GetSubsectionsName(topic') :
                  out' = IF Len(list) = 0 THEN << <<"notopic">> >>
                         ELSE << <<"topics", list>> >>
       ELSE pc' = "build" /\ out' = out
    /\ UNCHANGED <<args, file, added, qa, p, orchVars, chanVars, relay,
                   pubPc, itemsRead, currentLoop, consumed, wg, sentQA,
                   sentCmd>>

\* qa := topic.BuildQuestionsSet(p.GetListOfSubsections()[:]...), then the
\* call lib.AskQuestions(qa, p).
MainBuild ==
    /\ pc = "build"
    /\ LET ids == GetListOfSubsections(p)
       IN /\ qa' \in BuildQuestionsSet(topic, ids)
          /\ topic' = TopicAfterBuild(topic, ids)
          /\ out' = IF Len(ids) = 0 THEN Append(out, <<"all">>) ELSE out
    /\ pc' = "idle"
    /\ UNCHANGED <<args, file, added, p, orchVars, chanVars, relay,
                   pubPc, itemsRead, currentLoop, consumed, wg, sentQA,
                   sentCmd>>

MainNext ==
    \/ MainParse
    \/ MainParseTopic
    \/ MainBuild
    \/ Next

MainSpec == MainInit /\ [][MainNext]_vars

----------------------------------------------------------------------------
\* A question set under construction: AddEntry and Concatenate from NewQA().

\* Sets are built up to MaxEntries entries.
MaxEntries == 4

\* The texts AddEntry is given.
EntryTexts == {Empty, <<"Q", "1">>, <<"A", "1">>}

\* The lists of sets Concatenate is given.
ConcatenateLists ==
    LET Sets == QASets \cup {NewQA}
    IN { <<s>> : s \in Sets } \cup { <<s, t>> : s \in Sets, t \in Sets }

\* The entries of a set, one by one.
Entries(s) == [k \in 1..Len(s.questions) |-> <<s.questions[k], s.answers[k]>>]

RECURSIVE AllEntries(_)
AllEntries(sets) ==
    IF Len(sets) = 0 THEN << >>
    ELSE Entries(sets[1]) \o AllEntries(Tail(sets))

StoreInit ==
    /\ args = << >> /\ file = << >> /\ topic = NewTopic /\ added = << >>
    /\ qa = NewQA
    /\ p = DefaultParameters
    /\ pc = "store"
    /\ Fresh

StoreAddEntry ==
    /\ pc = "store"
    /\ Len(added) < MaxEntries
    /\ \E q \in EntryTexts, a \in EntryTexts :
          /\ qa' = AddEntry(qa, q, a)
          /\ added' = Append(added, <<q, a>>)
    /\ UNCHANGED <<args, file, topic, p, pc, orchVars, chanVars, relay,
                   pubVars, wg, sentQA, sentCmd>>

StoreConcatenate ==
    /\ pc = "store"
    /\ \E toAdd \in ConcatenateLists :
          /\ Len(added) + Len(AllEntries(toAdd)) <= MaxEntries
          /\ qa' = Concatenate(qa, toAdd)
          /\ added' = added \o AllEntries(toAdd)
    /\ UNCHANGED <<args, file, topic, p, pc, orchVars, chanVars, relay,
                   pubVars, wg, sentQA, sentCmd>>

StoreNext ==
    \/ StoreAddEntry
    \/ StoreConcatenate

StoreSpec == StoreInit /\ [][StoreNext]_vars

----------------------------------------------------------------------------
\* What the claims speak of.

Idle == pc = "idle"
Stopped == pc = "done"
RelaysReturned == \A r \in Relays : relay[r].pc = "done"
PublisherReturned == pubPc = "done"
OrchestratorClosed == closed["qachan"] /\ closed["command"]

NonEmptyTexts ==
    \A k \in 1..nbOfQuestions :
        Len(qa.questions[k]) # 0 /\ Len(qa.answers[k]) # 0

\* The texts an iteration sends first and second.
FirstField == IF p.reversed THEN qa.answers ELSE qa.questions
SecondField == IF p.reversed THEN qa.questions ELSE qa.answers

\* The index of the k-th item of a linear run, k = 1, 2, ...
LinearIndex(k) == ((k - 1) \div 2) % nbOfQuestions

\* The passes a limit allows: none when it is below 1.
Passes == IF p.limit < 0 THEN 0 ELSE p.limit
TotalItems == 2 * Passes * nbOfQuestions

IsBanner(e) == e[1] = "loop"
IsAnswerLine(e) == e[1] = "answer"
Banners == SelectSeq(out, IsBanner)
LimitNotice == <<"limit", p.limit>>
NoticeWritten == Len(out) > 0 /\ out[Len(out)] = LimitNotice

Unattended == p.mode = "linear" /\ ~p.interactive /\ p.limit >= 1 /\ NonEmptyTexts

----------------------------------------------------------------------------
\* C1 as stated: in a linear, non-interactive run over non-empty texts with
\* limit >= 1 the Publisher consumes questions[0], answers[0], questions[1],
\* answers[1], ... in the original order, 2 * limit * count items in all, then
\* writes the limit-reached notice and consumes nothing more.
C1_AsStated ==
    Unattended =>
        /\ Len(consumed) <= TotalItems
        /\ \A k \in 1..Len(consumed) :
              consumed[k].text =
                  IF k % 2 = 1 THEN qa.questions[LinearIndex(k) + 1]
                  ELSE qa.answers[LinearIndex(k) + 1]
        /\ PublisherReturned => Len(consumed) = TotalItems /\ NoticeWritten

\* C1 amended: the same run consumes, for the indices 0, 1, ..., count-1 cycled
\* limit times, the pair questions[i], answers[i] when reversed is false and
\* the pair answers[i], questions[i] when reversed is true; 2 * limit * count
\* items in all, then the notice, then nothing more.
C1_LinearTranscript ==
    Unattended =>
        /\ Len(consumed) <= TotalItems
        /\ \A k \in 1..Len(consumed) :
              consumed[k].text =
                  IF k % 2 = 1 THEN FirstField[LinearIndex(k) + 1]
                  ELSE SecondField[LinearIndex(k) + 1]
        /\ PublisherReturned => Len(consumed) = TotalItems /\ NoticeWritten

\* Two passes over two entries, read to the end.
C1_Witness ==
    /\ Unattended /\ ~p.reversed
    /\ nbOfQuestions = 2 /\ p.limit = 2
    /\ PublisherReturned /\ Len(consumed) = 8

----------------------------------------------------------------------------
C2_Pre == ~p.interactive /\ p.limit >= 1 /\ NonEmptyTexts

\* C2: a non-interactive session over non-empty texts with limit >= 1 never
\* gets stuck before AskQuestions has returned, and eventually returns, the
\* two Relays and the Publisher having returned; with count = 1 and limit = 1
\* it has then written one banner and one pair.
C2_Terminates ==
    /\ [](C2_Pre => (Stopped \/ ENABLED Next))
    /\ (C2_Pre => <>Stopped)
    /\ [](C2_Pre /\ Stopped => RelaysReturned /\ PublisherReturned /\ wg = 0)
    /\ [](C2_Pre /\ Stopped /\ nbOfQuestions = 1 /\ p.limit = 1 =>
            /\ Len(Banners) = 1
            /\ Len(SelectSeq(out, IsAnswerLine)) = 1
            /\ Len(consumed) = 2)

\* The boundary session, returned.
C2_Witness ==
    C2_Pre /\ Stopped /\ nbOfQuestions = 1 /\ p.limit = 1

----------------------------------------------------------------------------
\* C3: in every configuration, once the Orchestrator has closed qachan and
\* command, the session cannot be stuck short of the join: both Relays
\* return and wg.Wait() returns.
C3_JoinAfterClose ==
    OrchestratorClosed => (Stopped /\ RelaysReturned) \/ ENABLED Next

----------------------------------------------------------------------------
\* Where the Orchestrator is from the limit test that succeeds onwards.
C4_ClosePositions == {"closeQa", "closeCmd", "wait", "done"}

C4_Inv ==
    /\ pc # "panic"
    /\ closeCount["qachan"] <= 1 /\ closeCount["command"] <= 1
    /\ fullLoop > Passes <=> pc \in C4_ClosePositions
    /\ pc \in {"wait", "done"} =>
          closeCount["qachan"] = 1 /\ closeCount["command"] = 1

\* C4: the Orchestrator closes qachan and command at most once each, exactly
\* once each when its pass counter has exceeded the limit, and after the
\* closes it sends nothing and closes nothing: no send on a closed channel and
\* no second close (a panic) is reachable.
C4_ClosesOnce ==
    /\ []C4_Inv
    /\ [][OrchestratorClosed =>
            /\ sentQA' = sentQA /\ sentCmd' = sentCmd
            /\ closed' = closed /\ closeCount' = closeCount
            /\ pc' \in {"wait", "done"}]_vars

\* A session of four pairs that closed both channels and returned.
C4_Witness ==
    Stopped /\ closeCount["qachan"] = 1 /\ closeCount["command"] = 1
            /\ Len(sentQA) = 8

----------------------------------------------------------------------------
----------------------------------------------------------------------------
\* C6: the Orchestrator closes only at a pair boundary, when fullLoop first
\* exceeds the limit, after limit * count complete pairs (2 * limit * count
\* sends on qachan); never between a question and its answer.
C6_ClosesAtPairBoundary ==
    /\ (pc \in C4_ClosePositions \/ closed["qachan"] \/ closed["command"]) =>
          /\ Len(sentQA) = TotalItems
          /\ Len(sentQA) % 2 = 0
          /\ j = Passes * nbOfQuestions
          /\ fullLoop = Passes + 1
    /\ pc \in {"pace", "sendCmd", "sendA"} =>
          /\ ~closed["qachan"] /\ ~closed["command"]
          /\ Len(sentQA) % 2 = 1
    /\ \A k \in 1..Len(sentQA) :
          IF k % 2 = 1 THEN sentQA[k].role = "question"
          ELSE /\ sentQA[k].role = "answer"
               /\ sentQA[k].iter = sentQA[k - 1].iter

\* The closes of a session of two passes, after eight sends.
C6_Witness ==
    closed["qachan"] /\ closed["command"] /\ Len(sentQA) = 8 /\ p.limit = 2

----------------------------------------------------------------------------
\* C7: with limit L >= 1, when the Publisher has written the limit-reached
\* notice it has written before it exactly the banners 1, ..., L in order and
\* at most L * count pairs; it never consumes more than 2 * L * count items.
C7_BannersBeforeNotice ==
    p.limit >= 1 =>
        /\ Len(consumed) <= TotalItems
        /\ \A k \in 1..Len(out) : out[k][1] = "limit" => k = Len(out)
        /\ NoticeWritten =>
              /\ Banners = [k \in 1..p.limit |-> <<"loop", k, p.limit>>]
              /\ Len(SelectSeq(out, IsAnswerLine)) <= p.limit * nbOfQuestions

\* The notice of a session of two passes over two entries.
C7_Witness ==
    NoticeWritten /\ p.limit = 2 /\ nbOfQuestions = 2 /\ Len(Banners) = 2

----------------------------------------------------------------------------
\* C8: in a linear, non-interactive run the k-th pair sent has the index
\* (k-1) mod count whether reversed or not, and the two fields swap roles with
\* reversed: not reversed, questions[i] is sent first and answers[i] second;
\* reversed, answers[i] is sent first and questions[i] second.
C8_ReversedSwapsRoles ==
    (p.mode = "linear" /\ ~p.interactive) =>
        \A k \in 1..Len(sentQA) :
            /\ sentQA[k].idx = LinearIndex(k)
            /\ sentQA[k].text =
                  IF (k % 2 = 1) = p.reversed
                  THEN qa.answers[LinearIndex(k) + 1]
                  ELSE qa.questions[LinearIndex(k) + 1]

\* A reversed run of two passes that began with answers[0], questions[0].
C8_Witness ==
    /\ p.mode = "linear" /\ ~p.interactive /\ p.reversed
    /\ nbOfQuestions = 2 /\ Len(sentQA) = 8
    /\ sentQA[1].text = <<"A", "1">> /\ sentQA[2].text = <<"Q", "1">>

----------------------------------------------------------------------------
\* The Publisher's parity assumption: what it reads at an odd position was
\* sent as a question, what it reads next was sent as the answer of the same
\* iteration (the same index), and both are the texts of that index.
OnlyQA == \A k \in 1..Len(consumed) : consumed[k].src = "qachan"

ParityHolds ==
    \A k \in 1..Len(consumed) :
        IF k % 2 = 1
        THEN /\ consumed[k].role = "question"
             /\ consumed[k].text = FirstField[consumed[k].idx + 1]
        ELSE /\ consumed[k].role = "answer"
             /\ consumed[k].iter = consumed[k - 1].iter
             /\ consumed[k].idx = consumed[k - 1].idx
             /\ consumed[k].text = SecondField[consumed[k].idx + 1]

\* C9 as stated: for every question set, if the Publisher has read only
\* values the Orchestrator sent on qachan, the parity assumption holds.
C9_AsStated == OnlyQA => ParityHolds

\* C9 amended: for every question set with no empty text, if the Publisher
\* has read only values the Orchestrator sent on qachan, the parity
\* assumption holds.
C9_ParityOnQAOnly == (NonEmptyTexts /\ OnlyQA) => ParityHolds

\* Two pairs of different indices read in a random run.
C9_Witness ==
    /\ NonEmptyTexts /\ OnlyQA /\ p.mode = "random" /\ nbOfQuestions = 2
    /\ Len(consumed) = 4 /\ consumed[3].idx # consumed[1].idx

----------------------------------------------------------------------------
\* C10: the Publisher returns when its loop number exceeds the limit, having
\* read exactly 2 * limit * count items, without its channel being closed and
\* without waiting to receive again; it can have returned while qachan and
\* command are still open.
C10_PublisherStopsOnLimit ==
    /\ PublisherReturned =>
          /\ itemsRead = TotalItems /\ Len(consumed) = TotalItems
          /\ currentLoop = Passes + 1
          /\ NoticeWritten
          /\ ~closed["publisher"]
    /\ pubPc = "recv" => itemsRead < TotalItems /\ currentLoop <= Passes

\* The Publisher has returned and the Orchestrator has closed nothing yet.
C10_Witness ==
    /\ PublisherReturned /\ p.limit >= 1
    /\ ~closed["qachan"] /\ ~closed["command"]

----------------------------------------------------------------------------
FromQA(m) == m.src = "qachan"
FromCommand(m) == m.src = "command"
NonEmptyMsg(m) == Len(m.text) # 0

IsPrefix(s, t) ==
    /\ Len(s) <= Len(t)
    /\ \A k \in 1..Len(s) : s[k] = t[k]

\* C11: in every mode, what the Publisher has consumed of qachan is, in the
\* order consumed, the beginning of the non-empty values sent on qachan in the
\* order sent, none twice, none skipped and none out of place; and the same
\* for the values of command among themselves.
C11_OrderPerChannel ==
    /\ IsPrefix(SelectSeq(consumed, FromQA), SelectSeq(sentQA, NonEmptyMsg))
    /\ IsPrefix(SelectSeq(consumed, FromCommand),
                SelectSeq(sentCmd, NonEmptyMsg))

\* An interactive session: two acknowledgements and three qachan values read.
C11_Witness ==
    /\ p.interactive
    /\ Len(SelectSeq(consumed, FromCommand)) = 2
    /\ Len(SelectSeq(consumed, FromQA)) >= 3

----------------------------------------------------------------------------
\* Where in what the Publisher has read the value sent on src as role in the
\* iteration iter stands.
ConsumedAt(src, role, iter) ==
    { k \in 1..Len(consumed) :
        /\ consumed[k].src = src
        /\ consumed[k].role = role
        /\ consumed[k].iter = iter }

\* Both relays hold a value for the Publisher, which is receiving.
BothPending ==
    /\ pc # "panic"
    /\ pubPc = "recv"
    /\ \A r \in Relays : relay[r].pc = "send"

\* C12: in an interactive session with a non-empty acknowledgement the order
\* in which the Publisher reads the acknowledgement and the qachan value next
\* to it (the question sent before it, or the answer sent after it) is not
\* fixed: whenever the two relays each hold a value and the Publisher is
\* receiving, it can read either value first.
C12_EitherOrder ==
    BothPending =>
        \A r \in Relays :
            ENABLED (PubReceive /\ consumed' = Append(consumed, relay[r].v))

\* One run with both orders: the first acknowledgement read before the
\* question sent before it, the second one read after its question.
C12_Witness ==
    /\ \E a \in ConsumedAt("command", "ack", 0) :
       \E q \in ConsumedAt("qachan", "question", 0) : a < q
    /\ \E a \in ConsumedAt("command", "ack", 1) :
       \E q \in ConsumedAt("qachan", "question", 1) : q < a

----------------------------------------------------------------------------
\* Both Relays have returned and the Publisher has read fewer items than its
\* limit asks for.
C13_Pre == RelaysReturned /\ itemsRead < TotalItems

\* C13: from a state in which both Relays have returned and the Publisher has
\* not reached its limit, that stays so at every later step: the Publisher
\* never returns and reads nothing more, once at its receive it has no step,
\* wg.Wait() never returns, and no panic ends the program.
C13_SilentHang ==
    /\ [](C13_Pre =>
            /\ ~PublisherReturned /\ ~Stopped /\ pc # "panic"
            /\ wg >= 1
            /\ pubPc = "recv" => ~ENABLED PubReceive)
    /\ [][C13_Pre => C13_Pre' /\ consumed' = consumed]_vars

\* The hang of a non-interactive session whose first question is empty: the
\* Orchestrator waits, the Relays have returned, the Publisher receives.
C13_Witness ==
    C13_Pre /\ ~p.interactive /\ pc = "wait" /\ pubPc = "recv"

----------------------------------------------------------------------------
\* The phases of a session: Idle before the workers are launched, Running
\* until the Orchestrator has closed qachan and command, Draining until
\* wg.Wait() has returned, Stopped after.
Running == ~Idle /\ ~Stopped /\ ~OrchestratorClosed
Draining == ~Idle /\ ~Stopped /\ OrchestratorClosed
Phase == IF Idle THEN 0 ELSE IF Stopped THEN 3 ELSE IF Draining THEN 2 ELSE 1

\* C14: a session ends only by exhausting its pass limit.  When it is
\* Draining or Stopped, fullLoop has exceeded the limit, limit * count pairs
\* were sent, and qachan and command are closed; it becomes Draining only by
\* the Orchestrator's second close, made with fullLoop > limit, and Stopped
\* only from Draining by the join.
C14_EndsOnlyOnLimit ==
    /\ [](Draining \/ Stopped =>
            /\ fullLoop > p.limit
            /\ j = Passes * nbOfQuestions
            /\ Len(sentQA) = TotalItems
            /\ closed["qachan"] /\ closed["command"])
    /\ [][~Draining /\ Draining' =>
            Running /\ pc = "closeCmd" /\ fullLoop > p.limit]_vars
    /\ [][~Stopped /\ Stopped' => Draining /\ pc = "wait" /\ wg = 0]_vars

\* An interactive session of two passes over two entries, returned.
C14_Witness ==
    Stopped /\ p.interactive /\ fullLoop = 3 /\ nbOfQuestions = 2 /\ j = 4

----------------------------------------------------------------------------
\* The workers that have returned.
DoneCount ==
    Cardinality({r \in Relays : relay[r].pc = "done"})
        + (IF PublisherReturned THEN 1 ELSE 0)

\* C15: the phase only moves forward, one phase at a time, Idle, Running,
\* Draining, Stopped.  Each of the two Relays and the Publisher signals its
\* completion once, when it returns: the join counter is 3 less the workers
\* that have returned, never below zero, and a worker that has returned stays
\* so.  The session is Stopped only after the three completions.
C15_PhasesAndJoin ==
    /\ [](/\ wg >= 0
          /\ wg = (IF Idle THEN 0 ELSE 3 - DoneCount)
          /\ Idle => DoneCount = 0
          /\ Stopped => DoneCount = 3 /\ wg = 0)
    /\ [][Phase' \in {Phase, Phase + 1}]_vars
    /\ [][/\ \A r \in Relays : relay[r].pc = "done" => relay'[r].pc = "done"
          /\ PublisherReturned => PublisherReturned'
          /\ ~Idle => wg' = wg - (DoneCount' - DoneCount)
          /\ DoneCount' \in {DoneCount, DoneCount + 1}]_vars

\* A session in random mode that went through the four phases.
C15_Witness ==
    Stopped /\ DoneCount = 3 /\ wg = 0 /\ p.mode = "random" /\ Len(sentQA) = 4

----------------------------------------------------------------------------
\* C16: an iteration sends its question on qachan, then paces, then sends its
\* answer on qachan.  A non-interactive session never sends on command.  An
\* interactive one sends on command at most once an iteration, between the
\* question and the answer of that iteration, the line s.Scan() has just
\* read; at the end of the input it sends nothing on command.
C16_IterationOrder ==
    /\ [](/\ sentCmd # << >> => p.interactive
          /\ \A k \in 2..Len(sentCmd) : sentCmd[k - 1].iter < sentCmd[k].iter
          /\ pc = "sendCmd" => p.interactive /\ ~eof)
    /\ [][/\ pc = "sendQ" => pc' \in {"sendQ", "pace"}
          /\ pc = "pace" => pc' \in {"pace", "sendCmd", "sendA"}
          /\ pc = "sendCmd" => pc' \in {"sendCmd", "sendA"}
          /\ pc = "sendA" => pc' \in {"sendA", "loop"}
          /\ pc' = "sendCmd" /\ pc # "sendCmd" => pc = "pace" /\ eof' = eof
          /\ eof' # eof => eof' /\ pc = "pace" /\ pc' = "sendA"]_vars
    /\ [][sentQA' # sentQA =>
            /\ sentCmd' = sentCmd
            /\ \E m \in {sentQA'[Len(sentQA')]} :
                /\ sentQA' = Append(sentQA, m)
                /\ m.iter = j
                /\ IF Len(sentQA) % 2 = 0
                   THEN pc = "sendQ" /\ pc' = "pace" /\ m.role = "question"
                   ELSE pc = "sendA" /\ pc' = "loop" /\ m.role = "answer"]_vars
    /\ [][sentCmd' # sentCmd =>
            /\ pc = "sendCmd" /\ pc' = "sendA"
            /\ sentCmd' = Append(sentCmd, Msg(line, "command", "ack", i, j))
            /\ Len(sentQA) % 2 = 1
            /\ sentQA[Len(sentQA)].iter = j
            /\ sentQA[Len(sentQA)].role = "question"]_vars

\* Two iterations with a line each, then the end of the input and a third
\* iteration with no send on command.
C16_Witness ==
    /\ p.interactive /\ eof
    /\ Len(sentCmd) = 2 /\ Len(sentQA) = 6

----------------------------------------------------------------------------
\* One of the three goroutines of AskQuestions has been launched.
WorkersLaunched ==
    (\E r \in Relays : relay[r].pc # "new") \/ pubPc # "new"

\* Nothing was sent, received or closed on a channel.
NoChannelOperation ==
    /\ sentQA = << >> /\ sentCmd = << >> /\ consumed = << >>
    /\ \A c \in Channels : closeCount[c] = 0

\* C17: the program does not start a session on an empty set: with
\* count = 0 no worker is launched, no channel is used, and no modulo by the
\* count is evaluated (no division by zero).
C17_EmptySetRejected ==
    nbOfQuestions = 0 =>
        /\ ~WorkersLaunched
        /\ NoChannelOperation
        /\ pc \notin {"loop", "sendQ"}

----------------------------------------------------------------------------
\* C18: after any sequence of AddEntry and Concatenate from NewQA(), the set
\* has as many questions as answers, GetCount() is the number of entries
\* added (0 for the fresh set), and the k-th question and the k-th answer are
\* those of the k-th entry added.
C18_EntriesKeptPaired ==
    /\ Len(qa.questions) = Len(qa.answers)
    /\ GetCount(qa) = Len(added)
    /\ \A k \in 1..Len(added) :
          qa.questions[k] = added[k][1] /\ qa.answers[k] = added[k][2]

\* A set of as many entries as are explored, the last two not the same.
C18_Witness ==
    /\ pc = "store"
    /\ GetCount(qa) = MaxEntries
    /\ added[MaxEntries] # added[MaxEntries - 1]

----------------------------------------------------------------------------
\* The ids of the file in the order in which the file first names them: an
\* announce line names its id, an entry names the id it falls under.
RECURSIVE FileOrderFrom(_, _, _)
FileOrderFrom(lines, current, seen) ==
    IF Len(lines) = 0 THEN seen
    ELSE LET input == lines[1]
             isEntry == \E k \in 1..Len(input) : input[k] = QaSep
             id == IF isEntry \/ ~HasPrefix(input, TopicAnnounce) THEN current
                   ELSE TrimPrefix(input, TopicAnnounce)
             named == Len(input) > 0
                        /\ (isEntry \/ HasPrefix(input, TopicAnnounce))
             known == \E k \in 1..Len(seen) : seen[k] = id
         IN FileOrderFrom(Tail(lines), id,
                          IF named /\ ~known THEN Append(seen, id) ELSE seen)

FileOrder == FileOrderFrom(file, Empty, << >>)

\* The entries of the subsections named, in the order named.
EntriesOf(order) ==
    AllEntries([k \in 1..Len(order) |-> GetSubsection(ParseTopic(file),
                                                       order[k])])

\* C19: the set main hands to AskQuestions holds, with no ids given, the
\* entries of all the subsections of the file in file order, and with ids
\* given, the entries of the subsections named in the order given, nothing
\* dropped for being there twice; its count is the sum of their counts.
C19_FileOrder ==
    pc = "idle" =>
        LET ids == GetListOfSubsections(p)
        IN /\ Entries(qa) = EntriesOf(IF Len(ids) = 0 THEN FileOrder ELSE ids)
           /\ GetCount(qa) = Len(EntriesOf(IF Len(ids) = 0 THEN FileOrder
                                           ELSE ids))

----------------------------------------------------------------------------
\* A word -t of the command line is followed by a word that is no integer.
BadTime ==
    \E k \in 1..(Len(args) - 1) :
        /\ args[k] = OptT
        /\ LET w == args[k + 1]
               digits == IF Len(w) > 0 /\ w[1] \in {"+", "-"} THEN Tail(w)
                         ELSE w
           IN Len(digits) = 0 \/ \E d \in 1..Len(digits) : ~IsDigit(digits[d])

\* C20: when the word after -t is not an integer, Parse returns a non-nil
\* error, and main then starts no session: it exits, AskQuestions is not
\* called, no worker is launched and no channel is used.
C20_NoSessionAfterParseError ==
    BadTime =>
        /\ Parse(args).err
        /\ pc \in {"main", "exit"}
        /\ ~WorkersLaunched
        /\ NoChannelOperation

\* main has left with os.Exit(1) after -t 15aaa.
C20_Witness ==
    /\ pc = "exit"
    /\ args = <<OptT, <<"1", "5", "a", "a", "a">>>>

----------------------------------------------------------------------------
\* What relay r has received, what the Publisher has got from it, and the
\* value it holds for the Publisher.
ReceivedBy(r) == IF r = "A" THEN sentQA ELSE sentCmd
ForwardedBy(r) ==
    IF r = "A" THEN SelectSeq(consumed, FromQA)
    ELSE SelectSeq(consumed, FromCommand)
HeldBy(r) == IF relay[r].pc = "send" THEN <<relay[r].v>> ELSE << >>

\* C21: for each Relay, the values it has handed to the Publisher, followed
\* by the one it holds if it holds one, are the non-empty values it has
\* received, unchanged and in order; no empty value is held or handed on;
\* it holds one value at most.
C21_RelayForwardsNonEmpty ==
    /\ \A r \in Relays :
          /\ SelectSeq(ReceivedBy(r), NonEmptyMsg) = ForwardedBy(r) \o HeldBy(r)
          /\ relay[r].pc = "send" => Len(relay[r].v.text) # 0
          /\ relay[r].pc # "send" => relay[r].v = NoMsg
    /\ \A k \in 1..Len(consumed) : Len(consumed[k].text) # 0

\* An empty question and an empty line were dropped, a word was handed on.
C21_Witness ==
    /\ \E k \in 1..Len(sentQA) : Len(sentQA[k].text) = 0
    /\ \E k \in 1..Len(sentCmd) : Len(sentCmd[k].text) = 0
    /\ Len(ForwardedBy("B")) = 1 /\ Len(ForwardedBy("A")) >= 2

----------------------------------------------------------------------------
----------------------------------------------------------------------------
\* C23: the index is always in 0..count-1.  Every value sent was read at
\* the index of its iteration, the same for the question and the answer.
\* In linear mode the index is 0 at first and (i+1) mod count after each
\* answer, and changes at no other step; in random mode it changes only
\* where the iteration draws it.
C23_IndexInRange ==
    /\ [](/\ i \in 0..(nbOfQuestions - 1)
          /\ \A k \in 1..Len(sentQA) :
                /\ sentQA[k].idx \in 0..(nbOfQuestions - 1)
                /\ k % 2 = 0 => sentQA[k].idx = sentQA[k - 1].idx
                /\ p.mode = "linear" => sentQA[k].idx = LinearIndex(k)
                /\ sentQA[k].text =
                      IF k % 2 = 1 THEN FirstField[sentQA[k].idx + 1]
                      ELSE SecondField[sentQA[k].idx + 1]
          /\ p.mode = "linear" /\ pc \in {"sendQ", "pace", "sendCmd", "sendA"}
                => i = j % nbOfQuestions)
    /\ [][i' # i =>
            IF p.mode = "linear"
            THEN pc = "sendA" /\ pc' = "loop" /\ i' = (i + 1) % nbOfQuestions
            ELSE pc = "loop" /\ pc' = "sendQ"]_vars

\* A linear interactive session in its fourth iteration, the index back at 1.
C23_Witness ==
    /\ p.mode = "linear" /\ p.interactive /\ nbOfQuestions = 2
    /\ j = 3 /\ i = 1 /\ pc = "sendA"

----------------------------------------------------------------------------
IsItem(e) == e[1] \in {"question", "answer"}

\* The items written before the k-th entry of out.
ItemsBefore(k) ==
    Cardinality({x \in 1..(k - 1) : IsItem(out[x])})

\* C24: the Publisher writes the count once, first.  Its banners are Loop
\* (1/limit), (2/limit), ... in order, none beyond the limit; banner k is
\* written when 2*count*(k-1) items have been read, before the next item is
\* read.
C24_BannerTiming ==
    /\ pubPc \in {"new", "begin"} => out = << >>
    /\ pubPc \notin {"new", "begin"} => out[1] = <<"count", nbOfQuestions>>
    /\ \A k \in 2..Len(out) : out[k][1] # "count"
    /\ \A b \in 1..Len(Banners) :
          Banners[b] = <<"loop", b, p.limit>> /\ b <= p.limit
    /\ \A k \in 1..Len(out) :
          IsBanner(out[k]) =>
              ItemsBefore(k) = 2 * nbOfQuestions * (out[k][2] - 1)
    /\ pubPc = "recv" =>
          Len(Banners) = (itemsRead \div (2 * nbOfQuestions)) + 1
    /\ Len(Banners) = IF currentLoop > p.limit THEN Passes ELSE currentLoop

\* The second banner of a session over two entries, and one item after it.
C24_Witness ==
    nbOfQuestions = 2 /\ Len(Banners) = 2 /\ itemsRead = 5

----------------------------------------------------------------------------
IsItemEntry(e) == e[1] \in {"question", "answer", "separator"}

\* What out holds for the first n items read if the odd ones are written as
\* they are and the even ones as "     --> ", the item and a line end, each
\* followed by the line of dashes.
RECURSIVE WrittenAsIs(_)
WrittenAsIs(n) ==
    IF n = 0 THEN << >>
    ELSE WrittenAsIs(n - 1) \o
         (IF n % 2 = 1 THEN << <<"question", consumed[n].text>> >>
          ELSE << <<"answer", AnswerPrefix \o consumed[n].text \o <<"\n">>>>,
                  <<"separator">> >>)

\* C25: the Publisher formats by position alone, whichever Relay the item
\* came from: the k-th item read is written as it is when k is odd, and as
\* the answer line followed by the line of dashes when k is even; each item
\* read is written once and counted once in itemsRead.
C25_FormatByPosition ==
    /\ itemsRead = Len(consumed)
    /\ SelectSeq(out, IsItemEntry) = WrittenAsIs(Len(consumed))

----------------------------------------------------------------------------
\* A non-empty acknowledgement was sent on command.
AckSent == \E k \in 1..Len(sentCmd) : Len(sentCmd[k].text) # 0

\* A send that has no receiver: a Relay holds a value, or the Orchestrator
\* stands at a send.
BlockedOnSend ==
    \/ \E r \in Relays : relay[r].pc = "send"
    \/ pc \in {"sendQ", "sendCmd", "sendA"}

C26_Hang ==
    /\ ~Stopped
    /\ PublisherReturned => Len(consumed) = TotalItems
    /\ ~ENABLED Next =>
          /\ PublisherReturned /\ BlockedOnSend
          /\ Len(SelectSeq(sentQA, NonEmptyMsg))
                + Len(SelectSeq(sentCmd, NonEmptyMsg)) > Len(consumed)

\* C26 as stated: in interactive mode, once a non-empty acknowledgement has
\* been sent on command the session never reaches Stopped: the Publisher
\* returns after 2 * limit * count items from both sources, a value sent is
\* never read, and where the session stops a Relay or the Orchestrator is
\* blocked on a send.
C26_AsStated == AckSent => C26_Hang

\* C26 amended: the same for question sets with no empty text.
C26_AckBlocksJoin == (NonEmptyTexts /\ AckSent) => C26_Hang

\* The session has stopped short of the join: the Publisher has returned, the
\* Orchestrator has closed and waits, the command Relay holds the word.
C26_Witness ==
    /\ NonEmptyTexts /\ AckSent
    /\ ~ENABLED Next
    /\ PublisherReturned /\ pc = "wait" /\ relay["B"].pc = "send"

----------------------------------------------------------------------------
\* An empty question or answer was sent on qachan.
EmptySent == \E k \in 1..Len(sentQA) : Len(sentQA[k].text) = 0

C27_Hang ==
    /\ ~PublisherReturned /\ ~Stopped
    /\ itemsRead < TotalItems
    /\ ~ENABLED Next =>
          /\ OrchestratorClosed /\ pc = "wait"
          /\ RelaysReturned
          /\ pubPc = "recv"

\* C27 as stated: once an empty question or answer has been sent, Relay A
\* having dropped it, the Publisher reads fewer than 2 * limit * count items
\* and never reaches its limit; the Orchestrator still closes and both Relays
\* return, but the Publisher stays at its receive and AskQuestions never
\* returns.
C27_AsStated == EmptySent => C27_Hang

\* C27 amended: the same as long as no non-empty acknowledgement has been
\* sent on command, which is always so in a non-interactive session.
C27_EmptyTextBlocksPublisher == (EmptySent /\ ~AckSent) => C27_Hang

\* An interactive session whose only line was empty, stopped short of the
\* join: the Relays have returned and the Publisher receives.
C27_Witness ==
    /\ EmptySent /\ ~AckSent /\ p.interactive /\ Len(sentCmd) = 1
    /\ ~ENABLED Next
    /\ pc = "wait" /\ RelaysReturned /\ pubPc = "recv"

----------------------------------------------------------------------------
\* Every line sent on command so far was empty.
QuietInput == \A k \in 1..Len(sentCmd) : Len(sentCmd[k].text) = 0

\* C28: when every acknowledgement line read is empty or the input is at its
\* end, interactive or not, no value from command reaches the Publisher and
\* Relay B holds none; what the Publisher consumes, followed by what Relay A
\* holds, is the non-empty part of what the question set, the mode, the
\* reversed flag and the limit make the Orchestrator send on qachan; and the
\* session ends as the unattended one does: all 2 * limit * count items
\* sent, channels closed, Relays returned, and Stopped exactly when no sent
\* text was empty.
C28_QuietInputAsUnattended ==
    QuietInput =>
        /\ OnlyQA /\ relay["B"].pc # "send"
        /\ consumed \o HeldBy("A") = SelectSeq(sentQA, NonEmptyMsg)
        /\ \A k \in 1..Len(sentQA) :
              /\ p.mode = "linear" => sentQA[k].idx = LinearIndex(k)
              /\ sentQA[k].text =
                    IF (k % 2 = 1) = p.reversed
                    THEN qa.answers[sentQA[k].idx + 1]
                    ELSE qa.questions[sentQA[k].idx + 1]
        /\ ~ENABLED Next =>
              /\ Len(sentQA) = TotalItems
              /\ OrchestratorClosed /\ RelaysReturned
              /\ consumed = SelectSeq(sentQA, NonEmptyMsg)
              /\ Stopped <=> ~EmptySent
              /\ ~Stopped => pc = "wait" /\ pubPc = "recv"

\* An interactive session of two pairs ended: Return was pressed once, then
\* the input ended, and the Publisher consumed the four items.
C28_Witness ==
    /\ p.interactive /\ QuietInput /\ Len(sentCmd) = 1 /\ eof
    /\ Stopped /\ Len(consumed) = 4 /\ TotalItems = 4

----------------------------------------------------------------------------
\* How many non-empty values sent on qachan the Publisher has yet to consume.
Ahead ==
    Len(SelectSeq(sentQA, NonEmptyMsg)) - Len(SelectSeq(consumed, FromQA))

\* C29: the number of non-empty values the Orchestrator has sent on qachan
\* less the number of qachan values the Publisher has consumed is 0 or 1, and
\* it is 1 exactly while Relay A holds a value; the Orchestrator closes
\* qachan with at most one sent item not yet consumed.
C29_Backpressure ==
    /\ [](/\ Ahead \in {0, 1}
          /\ Ahead = 1 <=> relay["A"].pc = "send")
    /\ [][~closed["qachan"] /\ closed'["qachan"] =>
              /\ Ahead \in {0, 1} /\ Ahead' = Ahead
              /\ sentQA' = sentQA]_vars

\* qachan is closed while the last answer waits in Relay A.
C29_Witness ==
    /\ closed["qachan"] /\ Ahead = 1 /\ Len(sentQA) = 4
    /\ Len(SelectSeq(consumed, FromQA)) = 3

----------------------------------------------------------------------------
\* What the Publisher writes when the limit is reached at once.
CountAndNotice == << <<"count", nbOfQuestions>>, LimitNotice >>

\* C30: with limit <= 0 the Orchestrator closes both channels on its first
\* iteration and sends nothing; the Publisher consumes nothing and writes the
\* question count and the limit notice, no banner and no item; and the
\* session reaches Stopped.
C30_LimitReachedAtOnce ==
    /\ [](p.limit <= 0 =>
            /\ sentQA = << >> /\ sentCmd = << >> /\ consumed = << >>
            /\ j = 0 /\ fullLoop <= 1
            /\ IsPrefix(out, CountAndNotice)
            /\ PublisherReturned => out = CountAndNotice
            /\ Stopped => OrchestratorClosed /\ out = CountAndNotice)
    /\ (p.limit <= 0 /\ ~Idle) ~> Stopped

\* A session with limit -1 over two questions has stopped.
C30_Witness ==
    /\ p.limit = -1 /\ nbOfQuestions = 2 /\ Stopped
    /\ out = CountAndNotice /\ fullLoop = 1

====
